---- MODULE Spec2Model ----
(***************************************************************************)
(* Model of the Minesweeper board engine (src/minesweeper/game.py).        *)
(* The board of the program is 8x8 with 10 mines; the model keeps the code *)
(* of every operation and scales the three sizes down so that the whole    *)
(* state space can be explored.                                            *)
(***************************************************************************)
EXTENDS Integers, Sequences, FiniteSets, TLC

VARIABLES content_grid, visibility_grid, game_state, counter_safe_cells,
          preset_mines, call, before,
          status_label, buttons, click

vars == <<content_grid, visibility_grid, game_state, counter_safe_cells,
          preset_mines, call, before, status_label, buttons, click>>

(* the fields of the window (frontend/app.py) and its last click *)
gui == <<status_label, buttons, click>>

(* ---- sizes and inputs ----
   self.rows, self.cols and self.number_mines are 8, 8 and 10 in
   game.py:19-21. No operation depends on the three values other than through
   these names, and the model explores the same code on a smaller board:
   rows x cols cells with number_mines mines. cols and number_mines are kept
   at 2 so that a board with one more row stays explorable.
   A caller-supplied preset_mines list has at most MaxPresetLen entries: the
   lists of exactly number_mines distinct cells, the shorter ones, and the
   ones that name a cell twice. *)
rows == 2
cols == 2
number_mines == 2
MaxPresetLen == number_mines

MINE == -1

(* enums.py *)
PLAYING == "PLAYING"
GAME_OVER == "GAME_OVER"
WON == "WON"
GameState == {PLAYING, GAME_OVER, WON}

HIDDEN == "HIDDEN"
REVEALED == "REVEALED"
FLAGGED == "FLAGGED"
CellVisibility == {HIDDEN, REVEALED, FLAGGED}

RowIdx == 0 .. rows - 1
ColIdx == 0 .. cols - 1
Cells == RowIdx \X ColIdx

(* arguments a caller may pass: every cell, and coordinates that break each
   of the four comparisons of _check_bounds, alone and together *)
OutOfBounds ==
    {<<-1, 0>>, <<0, -1>>, <<rows, 0>>, <<0, cols>>, <<-1, -1>>, <<rows, cols>>}

CallArgs == Cells \cup OutOfBounds

neighbour_cells_coordinates ==
    {<<-1, 0>>, <<1, 0>>, <<0, -1>>, <<0, 1>>,
     <<-1, -1>>, <<-1, 1>>, <<1, -1>>, <<1, 1>>}

(* Python list indexing: a negative index counts from the end *)
PyIndex(i, n) == IF i < 0 THEN i + n ELSE i

GridGet(grid, row, col) == grid[PyIndex(row, rows)][PyIndex(col, cols)]

GridSet(grid, row, col, v) ==
    [grid EXCEPT ![PyIndex(row, rows)][PyIndex(col, cols)] = v]

(* variant: the lower bounds are not tested *)
check_bounds_NoLowerBound(row, col) ==
    IF row < rows /\ col < cols THEN TRUE ELSE FALSE

check_bounds(row, col) ==
    IF (row >= 0 /\ row < rows) /\ (col >= 0 /\ col < cols)
    THEN TRUE
    ELSE FALSE

check_for_mine(row, col) ==
    IF GridGet(content_grid, row, col) = MINE THEN TRUE ELSE FALSE

(* ---- construction ---- *)
NoPreset == [is_none |-> TRUE, items |-> <<>>]
Preset(list) == [is_none |-> FALSE, items |-> list]

RECURSIVE SeqsUpTo(_)
SeqsUpTo(n) ==
    IF n = 0 THEN {<<>>}
    ELSE LET shorter == SeqsUpTo(n - 1)
         IN  shorter \cup {Append(s, x) : s \in shorter, x \in Cells}

PresetLists == SeqsUpTo(MaxPresetLen)

(* random.sample(all_coordinates, number_mines): distinct coordinates *)
RandomSamples == {S \in SUBSET Cells : Cardinality(S) = number_mines}

RECURSIVE PlaceList(_, _)
PlaceList(grid, list) ==
    IF list = <<>> THEN grid
    ELSE PlaceList(GridSet(grid, Head(list)[1], Head(list)[2], MINE), Tail(list))

(* variant: the loop over the preset list starts at its second entry *)
place_mines_SkipsFirst(grid, preset, random_mines) ==
    IF preset.is_none
    THEN [r \in RowIdx |-> [c \in ColIdx |->
            IF <<r, c>> \in random_mines THEN MINE ELSE grid[r][c]]]
    ELSE IF preset.items = <<>> THEN grid
    ELSE PlaceList(grid, Tail(preset.items))

place_mines(grid, preset, random_mines) ==
    IF preset.is_none
    THEN [r \in RowIdx |-> [c \in ColIdx |->
            IF <<r, c>> \in random_mines THEN MINE ELSE grid[r][c]]]
    ELSE PlaceList(grid, preset.items)

(* variant: only the four orthogonal neighbours are looked at *)
count_neighbouring_mines_NoDiagonals(grid, row, col) ==
    Cardinality({d \in {<<-1, 0>>, <<1, 0>>, <<0, -1>>, <<0, 1>>} :
                    /\ check_bounds(row + d[1], col + d[2])
                    /\ GridGet(grid, row + d[1], col + d[2]) = MINE})

count_neighbouring_mines(grid, row, col) ==
    Cardinality({d \in neighbour_cells_coordinates :
                    /\ check_bounds(row + d[1], col + d[2])
                    /\ GridGet(grid, row + d[1], col + d[2]) = MINE})

(* the double loop of _calculate_neighbour_mines, cell k in row-major order,
   updating the grid in place *)
RECURSIVE CalculateFrom(_, _)
CalculateFrom(grid, k) ==
    IF k = rows * cols THEN grid
    ELSE LET row == k \div cols
             col == k % cols
         IN  IF grid[row][col] # MINE
             THEN CalculateFrom(
                    GridSet(grid, row, col, count_neighbouring_mines(grid, row, col)),
                    k + 1)
             ELSE CalculateFrom(grid, k + 1)

calculate_neighbour_mines(grid) == CalculateFrom(grid, 0)

ZeroGrid == [r \in RowIdx |-> [c \in ColIdx |-> 0]]
HiddenGrid == [r \in RowIdx |-> [c \in ColIdx |-> HIDDEN]]

Snapshot ==
    [content_grid |-> content_grid,
     visibility_grid |-> visibility_grid,
     game_state |-> game_state,
     counter_safe_cells |-> counter_safe_cells]

(* variant: the counter starts at the number of all cells *)
Construct_CounterCountsAllCells(preset, random_mines) ==
    /\ content_grid = calculate_neighbour_mines(place_mines(ZeroGrid, preset, random_mines))
    /\ visibility_grid = HiddenGrid
    /\ game_state = PLAYING
    /\ counter_safe_cells = rows * cols
    /\ preset_mines = preset
    /\ call = [op |-> "init", row |-> 0, col |-> 0, raised |-> "none", msg |-> ""]
    /\ before = [content_grid |-> ZeroGrid,
                 visibility_grid |-> HiddenGrid,
                 game_state |-> PLAYING,
                 counter_safe_cells |-> (rows * cols) - number_mines]

Construct(preset, random_mines) ==
    /\ content_grid = calculate_neighbour_mines(place_mines(ZeroGrid, preset, random_mines))
    /\ visibility_grid = HiddenGrid
    /\ game_state = PLAYING
    /\ counter_safe_cells = (rows * cols) - number_mines
    /\ preset_mines = preset
    /\ call = [op |-> "init", row |-> 0, col |-> 0, raised |-> "none", msg |-> ""]
    /\ before = [content_grid |-> ZeroGrid,
                 visibility_grid |-> HiddenGrid,
                 game_state |-> PLAYING,
                 counter_safe_cells |-> (rows * cols) - number_mines]

(* MinesweeperGUI._setup_ui: the status line and a blank button per cell;
   no click yet *)
PlayingLabel == "Mines: " \o ToString(number_mines) \o " | Status: Playing"

NoClick == [button |-> "none", row |-> 0, col |-> 0,
            forwarded |-> FALSE, escaped |-> FALSE]

setup_ui ==
    /\ status_label = PlayingLabel
    /\ buttons = [cell \in Cells |-> " "]
    /\ click = NoClick

Init ==
    /\ \/ \E random_mines \in RandomSamples : Construct(NoPreset, random_mines)
       \/ \E list \in PresetLists : Construct(Preset(list), {})
    /\ setup_ui

(* ---- queries ----
   What a query gives back: a value (a str, an int or a list of lists) or an
   exception. Python's 1 == "1" is False, so a value carries its type. *)
StrValue(s) == [type |-> "str", str |-> s, int |-> 0]
IntValue(n) == [type |-> "int", str |-> "", int |-> n]
NoValue == [type |-> "none", str |-> "", int |-> 0]

Return(v) == [raised |-> "none", msg |-> "", value |-> v]
Throw(kind, msg) == [raised |-> kind, msg |-> msg, value |-> NoValue]

get_game_state == game_state

get_mines_count == number_mines

(* variant: a revealed cell always shows its content, MINE included *)
get_cell_state_of_NoMineMarker(content, visibility, row, col) ==
    IF ~check_bounds(row, col)
    THEN Throw("ValueError", "Cell out of bounds")
    ELSE IF GridGet(visibility, row, col) = HIDDEN
    THEN Return(StrValue("H"))
    ELSE IF GridGet(visibility, row, col) = FLAGGED
    THEN Return(StrValue("F"))
    ELSE Return(IntValue(GridGet(content, row, col)))

(* variant: the FLAGGED test is missing, a flagged cell is shown as a
   revealed one *)
get_cell_state_of_FlagShowsContent(content, visibility, row, col) ==
    IF ~check_bounds(row, col)
    THEN Throw("ValueError", "Cell out of bounds")
    ELSE IF GridGet(visibility, row, col) = HIDDEN
    THEN Return(StrValue("H"))
    ELSE IF GridGet(content, row, col) = MINE
    THEN Return(StrValue("*"))
    ELSE Return(IntValue(GridGet(content, row, col)))

(* get_cell_state on an object whose grids are content and visibility *)
get_cell_state_of(content, visibility, row, col) ==
    IF ~check_bounds(row, col)
    THEN Throw("ValueError", "Cell out of bounds")
    ELSE IF GridGet(visibility, row, col) = HIDDEN
    THEN Return(StrValue("H"))
    ELSE IF GridGet(visibility, row, col) = FLAGGED
    THEN Return(StrValue("F"))
    ELSE IF GridGet(content, row, col) = MINE
    THEN Return(StrValue("*"))
    ELSE Return(IntValue(GridGet(content, row, col)))

get_cell_state(row, col) ==
    get_cell_state_of(content_grid, visibility_grid, row, col)

(* the double loop of get_board_display, about to look at (row, col) with
   row_display and board as built so far; an exception of get_cell_state
   would leave the loop *)
RECURSIVE BoardLoop(_, _, _, _, _, _)
BoardLoop(content, visibility, row, col, row_display, board) ==
    IF row = rows THEN Return(board)
    ELSE IF col = cols
    THEN BoardLoop(content, visibility, row + 1, 0, <<>>, Append(board, row_display))
    ELSE LET cell == get_cell_state_of(content, visibility, row, col)
         IN  IF cell.raised # "none" THEN cell
             ELSE BoardLoop(content, visibility, row, col + 1,
                            Append(row_display, cell.value), board)

(* variant: the loops are nested the other way round, columns outside *)
get_board_display_of_ColumnMajor(content, visibility) ==
    Return([c \in 1 .. cols |-> [r \in 1 .. rows |->
              get_cell_state_of(content, visibility, r - 1, c - 1).value]])

get_board_display_of(content, visibility) ==
    BoardLoop(content, visibility, 0, 0, <<>>, <<>>)

get_board_display == get_board_display_of(content_grid, visibility_grid)

(* ---- commands ---- *)
Returned(op, row, col) ==
    call' = [op |-> op, row |-> row, col |-> col, raised |-> "none", msg |-> ""]

Raise(op, row, col, kind, msg) ==
    /\ call' = [op |-> op, row |-> row, col |-> col, raised |-> kind, msg |-> msg]
    /\ UNCHANGED <<content_grid, visibility_grid, game_state, counter_safe_cells>>

(* ---- reveal ---- *)

(* variant: the counter is decremented for a mine too *)
RevealCell_DecrementsOnMine(row, col) ==
    /\ visibility_grid' = GridSet(visibility_grid, row, col, REVEALED)
    /\ counter_safe_cells' = counter_safe_cells - 1
    /\ IF GridGet(content_grid, row, col) = MINE
       THEN game_state' = GAME_OVER
       ELSE game_state' = IF counter_safe_cells - 1 = 0 THEN WON ELSE game_state
    /\ UNCHANGED content_grid
    /\ Returned("reveal", row, col)

(* variant: the counter is tested for 0 before it is decremented *)
RevealCell_WinCheckBeforeDecrement(row, col) ==
    /\ visibility_grid' = GridSet(visibility_grid, row, col, REVEALED)
    /\ IF GridGet(content_grid, row, col) = MINE
       THEN /\ game_state' = GAME_OVER
            /\ UNCHANGED counter_safe_cells
       ELSE /\ counter_safe_cells' = counter_safe_cells - 1
            /\ game_state' = IF counter_safe_cells = 0 THEN WON ELSE game_state
    /\ UNCHANGED content_grid
    /\ Returned("reveal", row, col)

(* variant: the cell is marked REVEALED in the safe branch only *)
RevealCell_MineStaysHidden(row, col) ==
    /\ IF GridGet(content_grid, row, col) = MINE
       THEN /\ game_state' = GAME_OVER
            /\ UNCHANGED <<counter_safe_cells, visibility_grid>>
       ELSE /\ visibility_grid' = GridSet(visibility_grid, row, col, REVEALED)
            /\ counter_safe_cells' = counter_safe_cells - 1
            /\ game_state' = IF counter_safe_cells - 1 = 0 THEN WON ELSE game_state
    /\ UNCHANGED content_grid
    /\ Returned("reveal", row, col)

(* variant: a cell without adjacent mines opens its hidden neighbours too *)
RevealCell_FloodFill(row, col) ==
    /\ visibility_grid' =
         [r \in RowIdx |-> [c \in ColIdx |->
            IF \/ <<r, c>> = <<row, col>>
               \/ /\ GridGet(content_grid, row, col) = 0
                  /\ <<r - row, c - col>> \in neighbour_cells_coordinates
                  /\ visibility_grid[r][c] = HIDDEN
            THEN REVEALED ELSE visibility_grid[r][c]]]
    /\ IF GridGet(content_grid, row, col) = MINE
       THEN /\ game_state' = GAME_OVER
            /\ UNCHANGED counter_safe_cells
       ELSE /\ counter_safe_cells' = counter_safe_cells - 1
            /\ game_state' = IF counter_safe_cells - 1 = 0
                             THEN WON ELSE game_state
    /\ UNCHANGED content_grid
    /\ Returned("reveal", row, col)

(* variant: the game state is not set to WON *)
RevealCell_NeverWins(row, col) ==
    /\ visibility_grid' = GridSet(visibility_grid, row, col, REVEALED)
    /\ IF GridGet(content_grid, row, col) = MINE
       THEN /\ game_state' = GAME_OVER
            /\ UNCHANGED counter_safe_cells
       ELSE /\ counter_safe_cells' = counter_safe_cells - 1
            /\ UNCHANGED game_state
    /\ UNCHANGED content_grid
    /\ Returned("reveal", row, col)

(* game.py:148-155, the part of reveal after its checks *)
RevealCell(row, col) ==
    /\ visibility_grid' = GridSet(visibility_grid, row, col, REVEALED)
    /\ IF GridGet(content_grid, row, col) = MINE
       THEN /\ game_state' = GAME_OVER
            /\ UNCHANGED counter_safe_cells
       ELSE /\ counter_safe_cells' = counter_safe_cells - 1
            /\ game_state' = IF counter_safe_cells - 1 = 0
                             THEN WON ELSE game_state
    /\ UNCHANGED content_grid
    /\ Returned("reveal", row, col)

(* variant: the counter is decremented before the visibility checks *)
reveal_CountsBeforeChecks(row, col) ==
    /\ before' = Snapshot
    /\ UNCHANGED preset_mines
    /\ IF game_state # PLAYING
       THEN Raise("reveal", row, col, "RuntimeError", "Game is over")
       ELSE IF ~check_bounds(row, col)
       THEN Raise("reveal", row, col, "ValueError", "Move is out of bounds")
       ELSE IF GridGet(visibility_grid, row, col) \in {REVEALED, FLAGGED}
       THEN /\ call' = [op |-> "reveal", row |-> row, col |-> col,
                        raised |-> "ValueError",
                        msg |-> IF GridGet(visibility_grid, row, col) = REVEALED
                                THEN "Cell is already revealed"
                                ELSE "Cell is flagged, unflag first"]
            /\ counter_safe_cells' =
                 IF GridGet(content_grid, row, col) = MINE
                 THEN counter_safe_cells ELSE counter_safe_cells - 1
            /\ UNCHANGED <<content_grid, visibility_grid, game_state>>
       ELSE RevealCell(row, col)

(* variant: the flagged test is missing *)
reveal_NoFlagCheck(row, col) ==
    /\ before' = Snapshot
    /\ UNCHANGED preset_mines
    /\ IF game_state # PLAYING
       THEN Raise("reveal", row, col, "RuntimeError", "Game is over")
       ELSE IF ~check_bounds(row, col)
       THEN Raise("reveal", row, col, "ValueError", "Move is out of bounds")
       ELSE IF GridGet(visibility_grid, row, col) = REVEALED
       THEN Raise("reveal", row, col, "ValueError", "Cell is already revealed")
       ELSE RevealCell(row, col)

(* variant: the bounds are tested before the game state *)
reveal_BoundsBeforeGameOver(row, col) ==
    /\ before' = Snapshot
    /\ UNCHANGED preset_mines
    /\ IF ~check_bounds(row, col)
       THEN Raise("reveal", row, col, "ValueError", "Move is out of bounds")
       ELSE IF game_state # PLAYING
       THEN Raise("reveal", row, col, "RuntimeError", "Game is over")
       ELSE IF GridGet(visibility_grid, row, col) = REVEALED
       THEN Raise("reveal", row, col, "ValueError", "Cell is already revealed")
       ELSE IF GridGet(visibility_grid, row, col) = FLAGGED
       THEN Raise("reveal", row, col, "ValueError", "Cell is flagged, unflag first")
       ELSE RevealCell(row, col)

(* variant: a lost game is not over for reveal, only a won one *)
reveal_PlaysOnAfterLoss(row, col) ==
    /\ before' = Snapshot
    /\ UNCHANGED preset_mines
    /\ IF game_state = WON
       THEN Raise("reveal", row, col, "RuntimeError", "Game is over")
       ELSE IF ~check_bounds(row, col)
       THEN Raise("reveal", row, col, "ValueError", "Move is out of bounds")
       ELSE IF GridGet(visibility_grid, row, col) = REVEALED
       THEN Raise("reveal", row, col, "ValueError", "Cell is already revealed")
       ELSE IF GridGet(visibility_grid, row, col) = FLAGGED
       THEN Raise("reveal", row, col, "ValueError", "Cell is flagged, unflag first")
       ELSE RevealCell(row, col)

reveal(row, col) ==
    /\ before' = Snapshot
    /\ UNCHANGED preset_mines
    /\ IF game_state # PLAYING
       THEN Raise("reveal", row, col, "RuntimeError", "Game is over")
       ELSE IF ~check_bounds(row, col)
       THEN Raise("reveal", row, col, "ValueError", "Move is out of bounds")
       ELSE IF GridGet(visibility_grid, row, col) = REVEALED
       THEN Raise("reveal", row, col, "ValueError", "Cell is already revealed")
       ELSE IF GridGet(visibility_grid, row, col) = FLAGGED
       THEN Raise("reveal", row, col, "ValueError", "Cell is flagged, unflag first")
       ELSE RevealCell(row, col)

(* ---- flag ---- *)

(* variant: two separate tests instead of if/else, so that a cell that was
   just unflagged is flagged again *)
ToggleFlag_TwoIfs(row, col) ==
    /\ visibility_grid' = GridSet(visibility_grid, row, col, FLAGGED)
    /\ UNCHANGED <<content_grid, game_state, counter_safe_cells>>
    /\ Returned("flag", row, col)

(* game.py:179-182, the part of flag after its checks *)
ToggleFlag(row, col) ==
    /\ IF GridGet(visibility_grid, row, col) = FLAGGED
       THEN visibility_grid' = GridSet(visibility_grid, row, col, HIDDEN)
       ELSE visibility_grid' = GridSet(visibility_grid, row, col, FLAGGED)
    /\ UNCHANGED <<content_grid, game_state, counter_safe_cells>>
    /\ Returned("flag", row, col)

(* variant: the game-over test is missing *)
flag_NoGameOverCheck(row, col) ==
    /\ before' = Snapshot
    /\ UNCHANGED preset_mines
    /\ IF ~check_bounds(row, col)
       THEN Raise("flag", row, col, "ValueError", "Move is out of bounds")
       ELSE IF GridGet(visibility_grid, row, col) = REVEALED
       THEN Raise("flag", row, col, "ValueError", "Cannot flag a revealed cell")
       ELSE ToggleFlag(row, col)

(* variant: the revealed test is missing *)
flag_NoRevealedCheck(row, col) ==
    /\ before' = Snapshot
    /\ UNCHANGED preset_mines
    /\ IF game_state # PLAYING
       THEN Raise("flag", row, col, "RuntimeError", "Game is over")
       ELSE IF ~check_bounds(row, col)
       THEN Raise("flag", row, col, "ValueError", "Move is out of bounds")
       ELSE ToggleFlag(row, col)

flag(row, col) ==
    /\ before' = Snapshot
    /\ UNCHANGED preset_mines
    /\ IF game_state # PLAYING
       THEN Raise("flag", row, col, "RuntimeError", "Game is over")
       ELSE IF ~check_bounds(row, col)
       THEN Raise("flag", row, col, "ValueError", "Move is out of bounds")
       ELSE IF GridGet(visibility_grid, row, col) = REVEALED
       THEN Raise("flag", row, col, "ValueError", "Cannot flag a revealed cell")
       ELSE ToggleFlag(row, col)

Next ==
    \E arg \in CallArgs :
        /\ \/ reveal(arg[1], arg[2])
           \/ flag(arg[1], arg[2])
        /\ UNCHANGED gui

Spec == Init /\ [][Next]_vars

(* ---- calls of the queries: the outcome is recorded, no field is written ---- *)
QueryCall(op, row, col, result) ==
    /\ call' = [op |-> op, row |-> row, col |-> col,
                raised |-> result.raised, msg |-> result.msg]
    /\ before' = Snapshot
    /\ UNCHANGED <<content_grid, visibility_grid, game_state,
                   counter_safe_cells, preset_mines>>
    /\ UNCHANGED gui

call_get_game_state ==
    QueryCall("get_game_state", 0, 0, Return(StrValue(get_game_state)))

call_get_mines_count ==
    QueryCall("get_mines_count", 0, 0, Return(IntValue(get_mines_count)))

call_get_cell_state(row, col) ==
    QueryCall("get_cell_state", row, col, get_cell_state(row, col))

call_get_board_display ==
    QueryCall("get_board_display", 0, 0, get_board_display)

(* the queries are called between commands; the commands of NextQ name
   cells of the grid, calls with other arguments being rejected without any
   change (Next has them) *)
QueryArgs == Cells \cup {<<-1, 0>>, <<rows, cols>>}

NextQ ==
    \/ \E cell \in Cells :
          /\ \/ reveal(cell[1], cell[2])
             \/ flag(cell[1], cell[2])
          /\ UNCHANGED gui
    \/ call_get_game_state
    \/ call_get_mines_count
    \/ call_get_board_display
    \/ \E arg \in QueryArgs : call_get_cell_state(arg[1], arg[2])

SpecQ == Init /\ [][NextQ]_vars

(* ---- boards with random mines ---- *)

(* Minesweeper() without preset mines: number_mines mines at the places
   random.sample chose *)
InitRandom ==
    /\ \E random_mines \in RandomSamples : Construct(NoPreset, random_mines)
    /\ setup_ui

SpecRandom == InitRandom /\ [][NextQ]_vars

(* ---- a caller that keeps revealing ---- *)

(* a reveal that returns *)
SuccessfulReveal ==
    \E cell \in Cells :
        /\ reveal(cell[1], cell[2])
        /\ call'.raised = "none"
        /\ UNCHANGED gui

(* the commands on the cells of the grid *)
NextPlay ==
    \E cell \in Cells :
        /\ \/ reveal(cell[1], cell[2])
           \/ flag(cell[1], cell[2])
        /\ UNCHANGED gui

(* a caller who does not leave a reveal that would return undone for ever *)
SpecPlay == Init /\ [][NextPlay]_vars /\ SF_vars(SuccessfulReveal)

(* ---- the window: frontend/app.py ---- *)

(* _update_board: the button texts from get_board_display, then the status
   line from the game state *)
ButtonText(value) ==
    IF value = StrValue("H") THEN " "
    ELSE IF value = StrValue("F") THEN "F"
    ELSE IF value = StrValue("*") THEN "*"
    ELSE ToString(value.int)

StatusText(state) ==
    IF state = WON THEN "Congratulations! You won!"
    ELSE IF state = GAME_OVER THEN "BOOM! You hit a mine. Game over!"
    ELSE PlayingLabel

(* the handlers catch ValueError and RuntimeError *)
Caught == {"ValueError", "RuntimeError"}

(* the part of a handler after the command: _update_board if the command
   returned, the message in the status line if it raised; an exception of
   get_board_display would be caught the same way, with the buttons
   unchanged *)
AfterCommand(button, row, col) ==
    LET board == get_board_display_of(content_grid', visibility_grid')
    IN  IF call'.raised = "none" /\ board.raised = "none"
        THEN /\ buttons' = [cell \in Cells |->
                              ButtonText(board.value[cell[1] + 1][cell[2] + 1])]
             /\ status_label' = StatusText(game_state')
             /\ click' = [button |-> button, row |-> row, col |-> col,
                          forwarded |-> TRUE, escaped |-> FALSE]
        ELSE LET raised == IF call'.raised # "none" THEN call' ELSE board
             IN  /\ UNCHANGED buttons
                 /\ status_label' = IF raised.raised \in Caught
                                     THEN raised.msg ELSE status_label
                 /\ click' = [button |-> button, row |-> row, col |-> col,
                              forwarded |-> TRUE,
                              escaped |-> raised.raised \notin Caught]

(* the handler returns at once *)
Ignored(button, row, col) ==
    /\ click' = [button |-> button, row |-> row, col |-> col,
                 forwarded |-> FALSE, escaped |-> FALSE]
    /\ UNCHANGED <<content_grid, visibility_grid, game_state, counter_safe_cells,
                   preset_mines, call, before, status_label, buttons>>

(* variant: the handler does not look at the game state *)
on_left_click_NoGate(row, col) ==
    /\ reveal(row, col)
    /\ AfterCommand("left", row, col)

on_left_click(row, col) ==
    IF get_game_state # PLAYING
    THEN Ignored("left", row, col)
    ELSE /\ reveal(row, col)
         /\ AfterCommand("left", row, col)

on_right_click(row, col) ==
    IF get_game_state # PLAYING
    THEN Ignored("right", row, col)
    ELSE /\ flag(row, col)
         /\ AfterCommand("right", row, col)

(* MinesweeperGUI.__init__: Minesweeper() without preset mines *)
InitGUI ==
    /\ \E random_mines \in RandomSamples : Construct(NoPreset, random_mines)
    /\ setup_ui

(* there is a button, and so a click, for every cell of the grid *)
NextGUI ==
    \E cell \in Cells :
        \/ on_left_click(cell[1], cell[2])
        \/ on_right_click(cell[1], cell[2])

SpecGUI == InitGUI /\ [][NextGUI]_vars

TypeOK ==
    /\ content_grid \in [RowIdx -> [ColIdx -> {MINE} \cup (0 .. 8)]]
    /\ visibility_grid \in [RowIdx -> [ColIdx -> CellVisibility]]
    /\ game_state \in GameState
    /\ counter_safe_cells \in Int

(* ---- vocabulary of the properties ---- *)
Board == <<content_grid, visibility_grid, counter_safe_cells, game_state>>

InBounds(row, col) == row \in RowIdx /\ col \in ColIdx

IsMine(cell) == content_grid[cell[1]][cell[2]] = MINE
Vis(cell) == visibility_grid[cell[1]][cell[2]]

MineCells == {cell \in Cells : IsMine(cell)}
SafeCells == Cells \ MineCells
RevealedCells == {cell \in Cells : Vis(cell) = REVEALED}
FlaggedCells == {cell \in Cells : Vis(cell) = FLAGGED}

TotalSafe == (rows * cols) - number_mines

(* the board was constructed with exactly number_mines distinct hazards:
   a random sample, or a preset list of that length without duplicates *)
ExactHazards ==
    \/ preset_mines.is_none
    \/ /\ Len(preset_mines.items) = number_mines
       /\ \A i, j \in 1 .. Len(preset_mines.items) :
             i # j => preset_mines.items[i] # preset_mines.items[j]

CallOK(op) == call.op = op /\ call.raised = "none"
CallFailed(op, kind) == call.op = op /\ call.raised = kind

(* the cell the call just made (call') names is in bounds, and is `cell` *)
CallOn(cell) == call'.row = cell[1] /\ call'.col = cell[2]

(* ---- C1 ---- *)
(* C1: a reveal or flag call that raises (RuntimeError or ValueError) leaves
   the content grid, every cell's visibility, counter_safe_cells and
   game_state exactly as they were before the call. *)
C1_FailedCallChangesNothing ==
    [][call'.raised # "none" =>
         /\ content_grid' = content_grid
         /\ visibility_grid' = visibility_grid
         /\ counter_safe_cells' = counter_safe_cells
         /\ game_state' = game_state]_vars

(* a reveal of a flagged cell was just rejected, on a board where another
   cell is already revealed *)
C1_Witness ==
    /\ CallFailed("reveal", "ValueError")
    /\ InBounds(call.row, call.col)
    /\ Vis(<<call.row, call.col>>) = FLAGGED
    /\ RevealedCells # {}
    /\ Board = <<before.content_grid, before.visibility_grid,
                 before.counter_safe_cells, before.game_state>>

(* ---- C2 ---- *)
(* C2: once game_state is GAME_OVER or WON, no reveal or flag call changes
   game_state or any cell's visibility; the only changes of game_state ever
   made are PLAYING -> GAME_OVER and PLAYING -> WON. *)
C2_TerminalMonotonicity ==
    [][/\ game_state # PLAYING =>
             /\ game_state' = game_state
             /\ visibility_grid' = visibility_grid
       /\ game_state' # game_state =>
             /\ game_state = PLAYING
             /\ game_state' \in {GAME_OVER, WON}]_vars

(* a flag call on a hidden in-bounds cell was made after the game was won *)
C2_Witness ==
    /\ game_state = WON
    /\ before.game_state = WON
    /\ call.op = "flag"
    /\ InBounds(call.row, call.col)
    /\ Vis(<<call.row, call.col>>) = HIDDEN

(* ---- C3 ---- *)
(* C3: on a board constructed with exactly number_mines distinct hazards,
   counter_safe_cells always equals the number of non-mine cells that are not
   REVEALED; it is rows*cols - number_mines after construction and is never
   negative. *)
C3_SafeCounter ==
    ExactHazards =>
        /\ counter_safe_cells = Cardinality(SafeCells \ RevealedCells)
        /\ counter_safe_cells >= 0
        /\ call.op = "init" => counter_safe_cells = TotalSafe

(* some safe cell is revealed, a mine was then revealed, and a later call
   was rejected *)
C3_Witness ==
    /\ ExactHazards
    /\ counter_safe_cells < TotalSafe
    /\ MineCells \cap RevealedCells # {}
    /\ FlaggedCells # {}
    /\ call.raised = "RuntimeError"

(* ---- C4 ---- *)
(* C4: on a board with exactly number_mines distinct hazards, game_state is
   WON exactly when every non-mine cell is REVEALED, which is exactly when
   counter_safe_cells is 0; after a successful reveal of a safe cell the
   state is WON if that was the last of the rows*cols - number_mines safe
   cells and PLAYING if it was an earlier one. *)
C4_WinCondition ==
    ExactHazards =>
        /\ game_state = WON <=> SafeCells \subseteq RevealedCells
        /\ game_state = WON <=> counter_safe_cells = 0
        /\ (CallOK("reveal") /\ <<call.row, call.col>> \in SafeCells) =>
              /\ Cardinality(SafeCells \cap RevealedCells) = TotalSafe
                    => game_state = WON
              /\ Cardinality(SafeCells \cap RevealedCells) < TotalSafe
                    => game_state = PLAYING

(* the last safe cell was just revealed, with a mine flagged on the way *)
C4_Witness ==
    /\ ExactHazards
    /\ game_state = WON
    /\ before.game_state = PLAYING
    /\ CallOK("reveal")
    /\ Cardinality(SafeCells \cap RevealedCells) = TotalSafe
    /\ MineCells \cap FlaggedCells # {}

(* ---- C5 ---- *)
(* C5: game_state is GAME_OVER exactly when some mine cell is REVEALED; a
   successful reveal of a mine cell sets GAME_OVER in the same step and does
   not decrement counter_safe_cells; a state with a revealed mine is never
   WON. *)
C5_LossCondition ==
    /\ [](game_state = GAME_OVER <=> MineCells \cap RevealedCells # {})
    /\ [](MineCells \cap RevealedCells # {} => game_state # WON)
    /\ [][\A cell \in MineCells :
            (call'.op = "reveal" /\ call'.raised = "none" /\ CallOn(cell)) =>
               /\ game_state' = GAME_OVER
               /\ counter_safe_cells' = counter_safe_cells
               /\ visibility_grid'[cell[1]][cell[2]] = REVEALED]_vars

(* a mine was just revealed after some safe cells *)
C5_Witness ==
    /\ game_state = GAME_OVER
    /\ before.game_state = PLAYING
    /\ CallOK("reveal")
    /\ <<call.row, call.col>> \in MineCells \cap RevealedCells
    /\ SafeCells \cap RevealedCells # {}
    /\ counter_safe_cells = before.counter_safe_cells

(* ---- C6 ---- *)
(* C6: a cell's visibility changes only HIDDEN -> FLAGGED or FLAGGED ->
   HIDDEN, by a flag call, or HIDDEN -> REVEALED, by a reveal call; a
   REVEALED cell never changes again and no step takes a cell from FLAGGED to
   REVEALED. *)
C6_VisibilityTransitions ==
    [][\A cell \in Cells :
         LET old == Vis(cell)
             new == visibility_grid'[cell[1]][cell[2]]
         IN  new # old =>
               \/ old = HIDDEN /\ new = FLAGGED /\ call'.op = "flag"
               \/ old = FLAGGED /\ new = HIDDEN /\ call'.op = "flag"
               \/ old = HIDDEN /\ new = REVEALED /\ call'.op = "reveal"]_vars

(* a reveal of a flagged cell was just rejected and the cell is still
   flagged, while another cell is revealed *)
C6_Witness ==
    /\ CallFailed("reveal", "ValueError")
    /\ call.msg = "Cell is flagged, unflag first"
    /\ Vis(<<call.row, call.col>>) = FLAGGED
    /\ before.visibility_grid[call.row][call.col] = FLAGGED
    /\ RevealedCells # {}

(* ---- C7 ---- *)
(* C7: while game_state is PLAYING, reveal(row, col) raises ValueError
   exactly when (row, col) is out of bounds (negative indices included) or
   the cell is REVEALED or FLAGGED; on an in-bounds HIDDEN cell it returns
   normally and the cell becomes REVEALED. *)
C7_RevealPreconditions ==
    [][(game_state = PLAYING /\ call'.op = "reveal") =>
         LET row == call'.row
             col == call'.col
             invalid == \/ ~InBounds(row, col)
                        \/ Vis(<<row, col>>) = REVEALED
                        \/ Vis(<<row, col>>) = FLAGGED
         IN  /\ call'.raised = "ValueError" <=> invalid
             /\ ~invalid =>
                  /\ call'.raised = "none"
                  /\ visibility_grid'[row][col] = REVEALED]_vars

(* a reveal with a negative row index was just rejected with ValueError
   while the game is being played *)
C7_Witness ==
    /\ game_state = PLAYING
    /\ CallFailed("reveal", "ValueError")
    /\ call.row < 0
    /\ call.col \in ColIdx
    /\ call.msg = "Move is out of bounds"

(* ---- C8 ---- *)
(* C8: while game_state is PLAYING, flag(row, col) raises ValueError exactly
   when (row, col) is out of bounds or the cell is REVEALED; otherwise it
   returns normally and turns a FLAGGED cell HIDDEN and a HIDDEN cell
   FLAGGED. *)
C8_FlagPreconditions ==
    [][(game_state = PLAYING /\ call'.op = "flag") =>
         LET row == call'.row
             col == call'.col
             invalid == \/ ~InBounds(row, col)
                        \/ Vis(<<row, col>>) = REVEALED
         IN  /\ call'.raised = "ValueError" <=> invalid
             /\ ~invalid =>
                  /\ call'.raised = "none"
                  /\ Vis(<<row, col>>) = FLAGGED =>
                        visibility_grid'[row][col] = HIDDEN
                  /\ Vis(<<row, col>>) = HIDDEN =>
                        visibility_grid'[row][col] = FLAGGED]_vars

(* a flag call on a revealed cell was just rejected with ValueError while
   the game is being played *)
C8_Witness ==
    /\ game_state = PLAYING
    /\ CallFailed("flag", "ValueError")
    /\ InBounds(call.row, call.col)
    /\ Vis(<<call.row, call.col>>) = REVEALED

(* ---- C9 ---- *)
(* C9: when game_state is not PLAYING, every reveal and every flag call
   raises RuntimeError, whatever its arguments (out of bounds, or naming a
   revealed or flagged cell), and nothing on the board changes. *)
C9_GameOverRejection ==
    [][(game_state # PLAYING /\ call'.op \in {"reveal", "flag"}) =>
         /\ call'.raised = "RuntimeError"
         /\ Board' = Board]_vars

(* after the game was lost, a reveal with out-of-bounds coordinates was
   rejected with RuntimeError *)
C9_Witness ==
    /\ game_state = GAME_OVER
    /\ before.game_state = GAME_OVER
    /\ CallFailed("reveal", "RuntimeError")
    /\ ~InBounds(call.row, call.col)

(* ---- C10 ---- *)
(* C10: when a flag call has just succeeded on an in-bounds HIDDEN cell (in
   a PLAYING state), a second flag call on the same cell succeeds, returns
   the cell to HIDDEN and restores all visibilities, counter_safe_cells and
   game_state to what they were before the first call. *)
C10_FlagTwiceCancels ==
    [][(/\ call.op = "flag" /\ call.raised = "none"
        /\ before.game_state = PLAYING
        /\ InBounds(call.row, call.col)
        /\ before.visibility_grid[call.row][call.col] = HIDDEN
        /\ call'.op = "flag"
        /\ call'.row = call.row /\ call'.col = call.col) =>
         /\ call'.raised = "none"
         /\ visibility_grid'[call.row][call.col] = HIDDEN
         /\ visibility_grid' = before.visibility_grid
         /\ counter_safe_cells' = before.counter_safe_cells
         /\ game_state' = before.game_state
         /\ content_grid' = before.content_grid]_vars

(* a cell was just unflagged by a successful flag call, so it had been
   flagged by an earlier one, on a board with a revealed cell *)
C10_Witness ==
    /\ CallOK("flag")
    /\ before.visibility_grid[call.row][call.col] = FLAGGED
    /\ Vis(<<call.row, call.col>>) = HIDDEN
    /\ game_state = PLAYING
    /\ RevealedCells # {}

(* ---- C11 ---- *)
(* C11 as stated: on every constructed board, with random mines or with any
   preset list of in-bounds coordinates, the number of MINE cells equals
   get_mines_count(), before and after any commands. *)
C11_Original_MineCountAnyPreset ==
    Cardinality(MineCells) = get_mines_count

(* C11 as amended: on every board constructed with random mines or with a
   preset list of exactly number_mines distinct in-bounds coordinates, the
   number of MINE cells equals get_mines_count(), before and after any
   commands. *)
C11_MineCountExactPreset ==
    ExactHazards => Cardinality(MineCells) = get_mines_count

(* a board built from a preset list of number_mines distinct cells, after a
   reveal and a flag *)
C11_Witness ==
    /\ ~preset_mines.is_none
    /\ ExactHazards
    /\ Cardinality(MineCells) = number_mines
    /\ RevealedCells # {}
    /\ FlaggedCells # {}

(* ---- C12 ---- *)
(* the mines among the cells of the grid that touch `cell`, by an edge or a
   corner *)
AdjacentMines(cell) ==
    {n \in MineCells :
        /\ n # cell
        /\ n[1] - cell[1] \in {-1, 0, 1}
        /\ n[2] - cell[2] \in {-1, 0, 1}}

(* C12: for every placement, every non-mine cell holds the number of mine
   cells among its up to 8 neighbours inside the grid (nothing outside the
   grid counts and the edges do not wrap), a value in 0..8; the cells where
   a mine was placed hold MINE, and no other cell does. *)
C12_NeighbourCounts ==
    /\ \A cell \in SafeCells :
          /\ content_grid[cell[1]][cell[2]] = Cardinality(AdjacentMines(cell))
          /\ content_grid[cell[1]][cell[2]] \in 0 .. 8
    /\ IF preset_mines.is_none
       THEN Cardinality(MineCells) = number_mines
       ELSE MineCells = {preset_mines.items[i] : i \in 1 .. Len(preset_mines.items)}

(* a freshly constructed board with a mine in a corner, a safe cell that
   touches two mines and one that touches one or none *)
C12_Witness ==
    /\ call.op = "init"
    /\ \E cell \in MineCells : cell[1] = 0 /\ cell[2] = 0
    /\ \E cell \in SafeCells : content_grid[cell[1]][cell[2]] = 2

(* ---- C13 ---- *)
(* C13: in every state and for every in-bounds (row, col), get_cell_state
   returns 'H' exactly when the cell is HIDDEN, 'F' exactly when it is
   FLAGGED, '*' exactly when it is REVEALED and holds MINE, and otherwise the
   cell's neighbour count, an int in 0..8; for out-of-bounds coordinates it
   raises ValueError, whatever the game state. *)
C13_CellDisplay ==
    \A arg \in CallArgs :
        LET result == get_cell_state(arg[1], arg[2])
        IN  IF InBounds(arg[1], arg[2])
            THEN /\ result.raised = "none"
                 /\ result.value = StrValue("H") <=> Vis(arg) = HIDDEN
                 /\ result.value = StrValue("F") <=> Vis(arg) = FLAGGED
                 /\ result.value = StrValue("*") <=>
                       (Vis(arg) = REVEALED /\ IsMine(arg))
                 /\ (Vis(arg) = REVEALED /\ ~IsMine(arg)) =>
                       /\ result.value = IntValue(content_grid[arg[1]][arg[2]])
                       /\ result.value.int \in 0 .. 8
            ELSE result.raised = "ValueError"

(* get_cell_state was just called out of bounds after the game was lost, on
   a board that shows a mine, a count, a flag and a hidden cell *)
C13_Witness ==
    /\ game_state = GAME_OVER
    /\ CallFailed("get_cell_state", "ValueError")
    /\ \E cell \in Cells : get_cell_state(cell[1], cell[2]).value = StrValue("*")
    /\ \E cell \in Cells : get_cell_state(cell[1], cell[2]).value.type = "int"
    /\ \E cell \in Cells : get_cell_state(cell[1], cell[2]).value = StrValue("F")
    /\ \E cell \in Cells : get_cell_state(cell[1], cell[2]).value = StrValue("H")

(* ---- C14 ---- *)
(* C14: in every state, whatever the game state, get_board_display returns
   normally a list of rows lists of cols entries whose entry (r, c) is what
   get_cell_state(r, c) returns. *)
C14_BoardDisplayRoundTrip ==
    LET result == get_board_display
    IN  /\ result.raised = "none"
        /\ Len(result.value) = rows
        /\ \A r \in RowIdx :
              /\ Len(result.value[r + 1]) = cols
              /\ \A c \in ColIdx :
                    /\ get_cell_state(r, c).raised = "none"
                    /\ result.value[r + 1][c + 1] = get_cell_state(r, c).value

(* get_board_display was just called after the game was lost, on a board
   whose display is not symmetric: the mine shows in one corner and the
   opposite corner of that row or column is still hidden *)
C14_Witness ==
    /\ game_state = GAME_OVER
    /\ CallOK("get_board_display")
    /\ get_cell_state(0, 1).value = StrValue("*")
    /\ get_cell_state(1, 0).value = StrValue("H")
    /\ FlaggedCells # {}

(* ---- C15 ---- *)
(* C15: right after construction every cell is HIDDEN and get_cell_state
   returns 'H' for it, game_state is PLAYING, get_mines_count() is
   number_mines and counter_safe_cells is rows*cols - number_mines. *)
C15_InitialState ==
    call.op = "init" =>
        /\ \A cell \in Cells :
              /\ Vis(cell) = HIDDEN
              /\ get_cell_state(cell[1], cell[2]) = Return(StrValue("H"))
        /\ get_game_state = PLAYING
        /\ get_mines_count = number_mines
        /\ counter_safe_cells = (rows * cols) - get_mines_count

(* a board just constructed from a preset list with two different mines *)
C15_Witness ==
    /\ call.op = "init"
    /\ ~preset_mines.is_none
    /\ Cardinality(MineCells) = number_mines
    /\ counter_safe_cells = Cardinality(SafeCells)

(* ---- C16 ---- *)
(* C16: for every sequence of left and right clicks, a click handler calls
   reveal or flag only while the game state is PLAYING; once it is not, no
   further call reaches the engine, so the engine never raises RuntimeError,
   and no exception of the engine leaves a handler. *)
C16_GuiGating ==
    /\ [](click.forwarded => before.game_state = PLAYING)
    /\ [](call.raised # "RuntimeError")
    /\ [](~click.escaped)
    /\ [][game_state # PLAYING =>
            /\ call' = call
            /\ before' = before
            /\ ~click'.forwarded]_vars

(* a right click after the mine was hit: not forwarded, the loss message is
   still shown and the last engine call is the losing reveal *)
C16_Witness ==
    /\ game_state = GAME_OVER
    /\ click.button = "right"
    /\ ~click.forwarded
    /\ status_label = "BOOM! You hit a mine. Game over!"
    /\ CallOK("reveal")
    /\ \E cell \in Cells : buttons[cell] = "*"

(* ---- C17 ---- *)
Queries == {"get_game_state", "get_mines_count", "get_cell_state",
            "get_board_display"}

(* C17: a reveal or flag that returns changes the visibility of the cell it
   names and of no other cell; no command and no query changes the content
   grid; flag changes neither the counter of safe cells nor the game state;
   the four queries change nothing. *)
C17_Frame ==
    [][/\ content_grid' = content_grid
       /\ (call'.op \in {"reveal", "flag"} /\ call'.raised = "none") =>
             \A cell \in Cells :
                IF CallOn(cell)
                THEN visibility_grid'[cell[1]][cell[2]] # Vis(cell)
                ELSE visibility_grid'[cell[1]][cell[2]] = Vis(cell)
       /\ call'.op = "flag" =>
             /\ counter_safe_cells' = counter_safe_cells
             /\ game_state' = game_state
       /\ call'.op \in Queries => Board' = Board]_vars

(* a reveal has just returned on a board where another cell is flagged and a
   third cell is revealed: both kept their visibility *)
C17_Witness ==
    /\ CallOK("reveal")
    /\ \E a, b, c \in Cells :
          /\ a # b /\ a # c /\ b # c
          /\ call.row = a[1] /\ call.col = a[2]
          /\ before.visibility_grid[a[1]][a[2]] = HIDDEN /\ Vis(a) = REVEALED
          /\ before.visibility_grid[b[1]][b[2]] = FLAGGED /\ Vis(b) = FLAGGED
          /\ before.visibility_grid[c[1]][c[2]] = REVEALED /\ Vis(c) = REVEALED

(* ---- C18 ---- *)
(* C18: in every reachable state no mine is REVEALED while the game state is
   PLAYING or WON, and exactly one mine is REVEALED when it is GAME_OVER;
   every other mine is HIDDEN or FLAGGED. *)
C18_AtMostOneMineRevealed ==
    LET revealed_mines == MineCells \cap RevealedCells
    IN  /\ game_state \in {PLAYING, WON} => revealed_mines = {}
        /\ game_state = GAME_OVER => Cardinality(revealed_mines) = 1
        /\ \A cell \in MineCells \ revealed_mines : Vis(cell) \in {HIDDEN, FLAGGED}

(* the game was lost on one mine, and a reveal of a second mine, still
   hidden, has just been rejected *)
C18_Witness ==
    /\ game_state = GAME_OVER
    /\ CallFailed("reveal", "RuntimeError")
    /\ \E m1, m2 \in MineCells :
          /\ m1 # m2
          /\ Vis(m1) = REVEALED
          /\ Vis(m2) = HIDDEN
          /\ call.row = m2[1] /\ call.col = m2[2]

(* ---- C19 ---- *)
HiddenCells == {cell \in Cells : Vis(cell) = HIDDEN}

(* C19: on a board with exactly number_mines distinct mines, at most
   rows*cols - number_mines reveals return in any execution: every reveal
   that returns opens one more cell, nothing else opens or closes a cell,
   and never more than that many cells are open. In every reachable
   PLAYING state of such a board a cell without mine is still HIDDEN or
   FLAGGED. A caller who keeps revealing, and so does not leave every
   remaining cell flagged for ever, reaches GAME_OVER or WON. *)
C19_BoundedPlay ==
    /\ [](ExactHazards => Cardinality(RevealedCells) <= TotalSafe)
    /\ [][IF call'.op = "reveal" /\ call'.raised = "none"
          THEN \E cell \in Cells \ RevealedCells :
                  RevealedCells' = RevealedCells \cup {cell}
          ELSE RevealedCells' = RevealedCells]_vars
    /\ [](ExactHazards /\ game_state = PLAYING =>
             \E cell \in SafeCells : Vis(cell) \in {HIDDEN, FLAGGED})
    /\ []<>(game_state = PLAYING => HiddenCells # {}) => <>(game_state # PLAYING)

(* the bound is attained: as many reveals as there are safe cells have
   returned, the last on a mine, and the game is over *)
C19_Witness ==
    /\ ExactHazards
    /\ Cardinality(RevealedCells) = TotalSafe
    /\ TotalSafe > 1
    /\ game_state = GAME_OVER
    /\ CallOK("reveal")

(* ---- C20 ---- *)
(* the content grids of the boards with number_mines mines: they differ in
   the placement of the mines only *)
Placements ==
    {calculate_neighbour_mines(place_mines(ZeroGrid, NoPreset, S)) :
        S \in RandomSamples}

(* the visibility grid after a command that returned, as a function of the
   grid before and of the call alone *)
VisibilityAfter(visibility, op, row, col) ==
    IF op = "reveal" THEN GridSet(visibility, row, col, REVEALED)
    ELSE IF GridGet(visibility, row, col) = FLAGGED
    THEN GridSet(visibility, row, col, HIDDEN)
    ELSE GridSet(visibility, row, col, FLAGGED)

(* C20: two boards that differ in the placement of the mines only and on
   which the same commands returned have the same visibility grid: it is
   all HIDDEN after construction and a command that returns changes it
   without regard to the content. On two such boards get_cell_state gives
   the same answer for every cell that is HIDDEN or FLAGGED, and for every
   cell where the contents agree; get_board_display of a board without
   revealed cell is the same for every placement. *)
C20_NoLeak ==
    /\ visibility_grid = HiddenGrid
    /\ [][(call'.op \in {"reveal", "flag"} /\ call'.raised = "none") =>
             visibility_grid' =
                VisibilityAfter(visibility_grid, call'.op, call'.row, call'.col)]_vars
    /\ [](\A other \in Placements :
            /\ \A cell \in Cells :
                  (\/ Vis(cell) \in {HIDDEN, FLAGGED}
                   \/ other[cell[1]][cell[2]] = content_grid[cell[1]][cell[2]])
                  => get_cell_state_of(other, visibility_grid, cell[1], cell[2])
                       = get_cell_state(cell[1], cell[2])
            /\ RevealedCells = {} =>
                  get_board_display_of(other, visibility_grid) = get_board_display)

(* a cell with a mine is flagged, another cell is revealed, and a board
   exists with the same revealed content but no mine under the flag *)
C20_Witness ==
    /\ CallOK("get_cell_state")
    /\ \E flagged \in FlaggedCells \cap MineCells :
          /\ call.row = flagged[1] /\ call.col = flagged[2]
          /\ RevealedCells # {}
          /\ \E other \in Placements :
                /\ other[flagged[1]][flagged[2]] # MINE
                /\ \A cell \in RevealedCells :
                      other[cell[1]][cell[2]] = content_grid[cell[1]][cell[2]]
====
